---- MODULE Spec2Model ----
(***************************************************************************)
(* A model of the alpaca_trading_bot core:                                 *)
(*   - OrderMonitor (src/src/services/order_monitor.py): the polling loop, *)
(*     the diff of the open-order set, the terminal classification and the *)
(*     snapshot queries;                                                   *)
(*   - parse_signal_key and process_trading_signals                        *)
(*     (src/src/services/signal_processor.py).                             *)
(* The brokerage is an environment: its order statuses change on their own *)
(* and its queries may fail.                                               *)
(***************************************************************************)
EXTENDS Integers, Sequences, FiniteSets, TLC

(***************************************************************************)
(* Bounds of the model.                                                    *)
(***************************************************************************)
NumOrders == 2

Orders == 1..NumOrders

(***************************************************************************)
(* Order statuses of the venue (alpaca.trading.enums.OrderStatus, imported *)
(* at order_monitor.py:16).  "new" is the status of an open order; the     *)
(* others are final.  The monitor tests for FILLED, CANCELED and EXPIRED   *)
(* only; "rejected" stands for the final statuses it does not test for.    *)
(***************************************************************************)
OrderStatus == {"new", "filled", "canceled", "expired", "rejected"}

OpenStatus == {"new"}

VARIABLES
    \* ---- the order monitor (order_monitor.py) and the venue
    venueStatus,      \* the venue: order id -> its current status
    active_orders,    \* OrderMonitor.active_orders (the ids: the dict's keys)
    running,          \* OrderMonitor._running
    pc,               \* the start_monitoring task: "created", "sleep", "done"
    stopRequested,    \* history: stop_monitoring has been called
    cycleResult,      \* the last _check_orders: "none", "failed", "ok"
    byId,             \* last cycle: what get_order_by_id returned per order
    classified,       \* last cycle: the handlers invoked per order
    filledEvents,     \* per order: number of "Order filled" events so far
    cancelledEvents,  \* per order: number of "Order cancelled/expired" events
    snapshot,         \* the last value a snapshot query returned
    \* ---- process_trading_signals (signal_processor.py)
    feed,             \* the decoded JSON feed, in document order
    account_value,
    target_symbols,
    min_confidence,
    min_risk_reward,
    sigResult,        \* what process_trading_signals returned or raised
    \* ---- parse_signal_key (signal_processor.py)
    key,
    keyResult,
    \* ---- the run command (main.py)
    runPc,            \* "idle", "start", "confirm" (at input()), "returned",
                      \* "done" (line 107 logged), "aborted" (raised)
    runRaised,        \* the exception run raised, or "none"
    orders_placed,
    orders_failed,
    visits,           \* history: per answered confirmation, what was done
    \* ---- TradingService.place_stop_limit_order (alpaca_service.py)
    placeCall,        \* the arguments of the last direct call
    placeResult       \* what that call raised and what it submitted

monVars == <<venueStatus, active_orders, running, pc, stopRequested,
             cycleResult, byId, classified, filledEvents, cancelledEvents,
             snapshot>>

sigVars == <<feed, account_value, target_symbols, min_confidence,
             min_risk_reward, sigResult>>

keyVars == <<key, keyResult>>

runVars == <<runPc, runRaised, orders_placed, orders_failed, visits>>

placeVars == <<placeCall, placeResult>>

vars == <<monVars, sigVars, keyVars, runVars, placeVars>>

NotQueried == "not_queried"
QueryError == "error"

NoSnapshot == [kind |-> "none", ok |-> FALSE, orders |-> {}]

NotCalled == [called |-> FALSE]

(***************************************************************************)
(* OrderMonitor.__init__                                                   *)
(***************************************************************************)
MonitorInit ==
    /\ venueStatus = [o \in Orders |-> "new"]
    /\ active_orders = {}
    /\ running = FALSE
    /\ pc = "created"
    /\ stopRequested = FALSE
    /\ cycleResult = "none"
    /\ byId = [o \in Orders |-> NotQueried]
    /\ classified = [o \in Orders |-> {}]
    /\ filledEvents = [o \in Orders |-> 0]
    /\ cancelledEvents = [o \in Orders |-> 0]
    /\ snapshot = NoSnapshot

\* No call of process_trading_signals is under way.
SignalsIdle ==
    /\ feed = <<>>
    /\ account_value = 0
    /\ target_symbols = [given |-> FALSE, symbols |-> {}]
    /\ min_confidence = 0
    /\ min_risk_reward = 0
    /\ sigResult = NotCalled

\* No call of parse_signal_key is under way.
KeyIdle ==
    /\ key = <<>>
    /\ keyResult = NotCalled

\* The run command is not under way.
RunIdle ==
    /\ runPc = "idle"
    /\ runRaised = "none"
    /\ orders_placed = 0
    /\ orders_failed = 0
    /\ visits = <<>>

\* No direct call of place_stop_limit_order has been made.
PlaceIdle ==
    /\ placeCall = NotCalled
    /\ placeResult = NotCalled

(***************************************************************************)
(* The venue.  An open order reaches a final status; a final status never  *)
(* changes.                                                                *)
(***************************************************************************)
VenueUpdate ==
    /\ \E o \in Orders, s \in OrderStatus \ OpenStatus :
          /\ venueStatus[o] \in OpenStatus
          /\ venueStatus' = [venueStatus EXCEPT ![o] = s]
    /\ UNCHANGED <<active_orders, running, pc, stopRequested, cycleResult,
                   byId, classified, filledEvents, cancelledEvents, snapshot>>
    /\ UNCHANGED <<sigVars, keyVars, runVars, placeVars>>

\* The orders the venue holds open.
OpenOnVenue == {o \in Orders : venueStatus[o] \in OpenStatus}

(***************************************************************************)
(* What get_orders(status=OPEN, after=<today>) may return: the open orders *)
(* submitted after the date given, so any subset of the open orders.       *)
(***************************************************************************)
OpenOrderResults == SUBSET OpenOnVenue

\* A mutant of HandleOrderUpdate: the second test is an `if`, not an `elif`,
\* and its list holds FILLED too.
HandleOrderUpdateNoElif(status) ==
    (IF status = "filled" THEN {"filled"} ELSE {})
    \cup (IF status \in {"filled", "canceled", "expired"}
          THEN {"cancelled"} ELSE {})

(***************************************************************************)
(* _handle_order_update: the handlers invoked for an order of this status. *)
(***************************************************************************)
HandleOrderUpdate(status) ==
    IF status = "filled" THEN {"filled"}
    ELSE IF status \in {"canceled", "expired"} THEN {"cancelled"}
    ELSE {}

\* A mutant of NewActiveOrders: the fetched orders are merged into the
\* tracked ones, so that no order ever leaves the set.
NewActiveOrdersMerged(previous, current) == previous \cup current

\* self.active_orders = current_orders
NewActiveOrders(previous, current) == current

\* A mutant of ActiveOrdersOnFailure: the set is cleared before the query.
ActiveOrdersClearedOnFailure(previous) == {}

\* the except branch of _check_orders: active_orders is not assigned
ActiveOrdersOnFailure(previous) == previous

Count(b) == IF b THEN 1 ELSE 0

\* A mutant of DisappearedOrders: every known order the open set omits is
\* taken, tracked or not.
DisappearedOrdersUntracked(previous, current) == Orders \ current

\* The orders of the loop `for order_id, prev_order in self.active_orders`
\* that pass `if order_id not in current_orders`.
DisappearedOrders(previous, current) == previous \ current

\* A mutant of CheckOrders: get_order_by_id is called outside any inner try,
\* so its failure ends the cycle in the outer except branch.
CheckOrdersWithoutInnerTry ==
    \/ /\ cycleResult' = "failed"
       /\ active_orders' = active_orders
       /\ byId' = [o \in Orders |-> NotQueried]
       /\ classified' = [o \in Orders |-> {}]
       /\ UNCHANGED <<filledEvents, cancelledEvents>>
    \/ \E current \in OpenOrderResults :
       \E failing \in SUBSET (active_orders \ current) :
          LET gone == active_orders \ current
              answer == [o \in Orders |->
                           IF o \notin gone \/ failing # {} THEN
                              IF o \in failing THEN QueryError ELSE NotQueried
                           ELSE venueStatus[o]]
              calls == [o \in Orders |->
                           IF answer[o] \in OrderStatus
                           THEN HandleOrderUpdate(answer[o]) ELSE {}]
          IN /\ cycleResult' = IF failing = {} THEN "ok" ELSE "failed"
             /\ byId' = answer
             /\ classified' = calls
             /\ filledEvents' = [o \in Orders |->
                    filledEvents[o] + Count("filled" \in calls[o])]
             /\ cancelledEvents' = [o \in Orders |->
                    cancelledEvents[o] + Count("cancelled" \in calls[o])]
             /\ active_orders' = IF failing = {} THEN current
                                 ELSE active_orders

(***************************************************************************)
(* _check_orders: one poll cycle.  Either get_orders raises, or it returns *)
(* an open set; every order tracked and absent from it is queried by id    *)
(* (the query may raise, which is caught per order) and handed to          *)
(* _handle_order_update; then active_orders is replaced.  The venue gives  *)
(* a FILLED order its filled_avg_price and filled_qty, so the filled       *)
(* handler's Decimal conversions succeed and it logs its event.            *)
(***************************************************************************)
CheckOrders ==
    \/ /\ cycleResult' = "failed"
       /\ active_orders' = ActiveOrdersOnFailure(active_orders)
       /\ byId' = [o \in Orders |-> NotQueried]
       /\ classified' = [o \in Orders |-> {}]
       /\ UNCHANGED <<filledEvents, cancelledEvents>>
    \/ \E current \in OpenOrderResults :
       \E failing \in SUBSET DisappearedOrders(active_orders, current) :
          LET gone == DisappearedOrders(active_orders, current)
              answer == [o \in Orders |->
                           IF o \notin gone THEN NotQueried
                           ELSE IF o \in failing THEN QueryError
                           ELSE venueStatus[o]]
              calls == [o \in Orders |->
                           IF answer[o] \in OrderStatus
                           THEN HandleOrderUpdate(answer[o]) ELSE {}]
          IN /\ cycleResult' = "ok"
             /\ byId' = answer
             /\ classified' = calls
             /\ filledEvents' = [o \in Orders |->
                    filledEvents[o] + Count("filled" \in calls[o])]
             /\ cancelledEvents' = [o \in Orders |->
                    cancelledEvents[o] + Count("cancelled" \in calls[o])]
             /\ active_orders' = NewActiveOrders(active_orders, current)

(***************************************************************************)
(* start_monitoring, from the task's first statement to its first          *)
(* suspension in asyncio.sleep: _running = True, the loop test, one cycle. *)
(***************************************************************************)
StartMonitoring ==
    /\ pc = "created"
    /\ running' = TRUE
    /\ CheckOrders
    /\ pc' = "sleep"
    /\ UNCHANGED <<venueStatus, stopRequested, snapshot>>
    /\ UNCHANGED <<sigVars, keyVars, runVars, placeVars>>

(***************************************************************************)
(* start_monitoring resumed after asyncio.sleep: the loop test, then       *)
(* either one more cycle and the next sleep, or the end of the loop.       *)
(***************************************************************************)
WakeUp ==
    /\ pc = "sleep"
    /\ IF running
       THEN /\ CheckOrders
            /\ pc' = "sleep"
            /\ UNCHANGED <<venueStatus, running, stopRequested, snapshot>>
       ELSE /\ pc' = "done"
            /\ UNCHANGED <<venueStatus, active_orders, running, stopRequested,
                           cycleResult, byId, classified, filledEvents,
                           cancelledEvents, snapshot>>
    /\ UNCHANGED <<sigVars, keyVars, runVars, placeVars>>

(***************************************************************************)
(* stop_monitoring: a plain method, callable whenever the task is          *)
(* suspended (before its first statement, or in asyncio.sleep).            *)
(***************************************************************************)
StopMonitoring ==
    /\ running' = FALSE
    /\ stopRequested' = TRUE
    /\ UNCHANGED <<venueStatus, active_orders, pc, cycleResult, byId,
                   classified, filledEvents, cancelledEvents, snapshot>>
    /\ UNCHANGED <<sigVars, keyVars, runVars, placeVars>>

\* A mutant of ActiveOrdersAfterSnapshot: the snapshot's orders are stored.
ActiveOrdersStoredBySnapshot(previous, orders) == orders

\* active_orders after get_active_positions_and_orders: not assigned
ActiveOrdersAfterSnapshot(previous, orders) == previous

(***************************************************************************)
(* get_active_positions_and_orders: both queries succeed and the open      *)
(* orders are returned with the positions, or one of them raises and the   *)
(* empty snapshot is returned.  (The positions are projections of the      *)
(* venue's holdings; only the orders are kept here.)                       *)
(***************************************************************************)
GetActivePositionsAndOrders ==
    /\ \/ \E current \in OpenOrderResults :
            /\ snapshot' = [kind |-> "positions_and_orders", ok |-> TRUE,
                            orders |-> current]
            /\ active_orders' =
                   ActiveOrdersAfterSnapshot(active_orders, current)
       \/ /\ snapshot' = [kind |-> "positions_and_orders", ok |-> FALSE,
                          orders |-> {}]
          /\ active_orders' = ActiveOrdersAfterSnapshot(active_orders, {})
    /\ UNCHANGED <<venueStatus, running, pc, stopRequested, cycleResult,
                   byId, classified, filledEvents, cancelledEvents>>
    /\ UNCHANGED <<sigVars, keyVars, runVars, placeVars>>

(***************************************************************************)
(* get_active_positions: the positions, or [] when the query raises.       *)
(***************************************************************************)
GetActivePositions ==
    /\ \E success \in BOOLEAN :
          snapshot' = [kind |-> "positions", ok |-> success, orders |-> {}]
    /\ UNCHANGED <<venueStatus, active_orders, running, pc, stopRequested,
                   cycleResult, byId, classified, filledEvents,
                   cancelledEvents>>
    /\ UNCHANGED <<sigVars, keyVars, runVars, placeVars>>

Init == MonitorInit /\ SignalsIdle /\ KeyIdle /\ RunIdle /\ PlaceIdle

Next ==
    \/ VenueUpdate
    \/ StartMonitoring
    \/ WakeUp
    \/ StopMonitoring
    \/ GetActivePositionsAndOrders
    \/ GetActivePositions

Spec == Init /\ [][Next]_vars

(***************************************************************************)
(* signal_processor.py.  A string is a sequence of one-character strings.  *)
(***************************************************************************)
Digits == {"0", "1", "2", "3", "4", "5", "6", "7", "8", "9"}

DigitValue(c) ==
    CASE c = "0" -> 0 [] c = "1" -> 1 [] c = "2" -> 2 [] c = "3" -> 3
      [] c = "4" -> 4 [] c = "5" -> 5 [] c = "6" -> 6 [] c = "7" -> 7
      [] c = "8" -> 8 [] c = "9" -> 9

\* The first index at or after i where `_w` starts in s, or 0.
RECURSIVE FindSeparator(_, _)
FindSeparator(s, i) ==
    IF i + 1 > Len(s) THEN 0
    ELSE IF s[i] = "_" /\ s[i + 1] = "w" THEN i
    ELSE FindSeparator(s, i + 1)

\* str.split('_w'): the pieces between the occurrences of `_w`, scanned from
\* the left without overlap.
RECURSIVE SplitOnSeparator(_)
SplitOnSeparator(s) ==
    LET i == FindSeparator(s, 1)
    IN IF i = 0 THEN <<s>>
       ELSE <<SubSeq(s, 1, i - 1)>> \o SplitOnSeparator(SubSeq(s, i + 2, Len(s)))

\* The value of a run of digits and underscores, read from the left.
RECURSIVE DigitsValue(_, _)
DigitsValue(s, acc) ==
    IF s = <<>> THEN acc
    ELSE IF Head(s) = "_" THEN DigitsValue(Tail(s), acc)
    ELSE DigitsValue(Tail(s), 10 * acc + DigitValue(Head(s)))

(***************************************************************************)
(* int(text) in base 10: an optional sign, then digits, where single       *)
(* underscores may stand between digits; anything else is a ValueError.    *)
(* (Python also strips surrounding whitespace; the strings modelled hold   *)
(* none.)                                                                  *)
(***************************************************************************)
PyInt(text) ==
    LET signed == text # <<>> /\ Head(text) \in {"-", "+"}
        body == IF signed THEN Tail(text) ELSE text
        wellFormed ==
            /\ body # <<>>
            /\ \A i \in 1..Len(body) : body[i] \in Digits \cup {"_"}
            /\ body[1] \in Digits
            /\ body[Len(body)] \in Digits
            /\ \A i \in 1..(Len(body) - 1) :
                  ~(body[i] = "_" /\ body[i + 1] = "_")
    IN IF ~wellFormed THEN [ok |-> FALSE, value |-> 0]
       ELSE [ok |-> TRUE,
             value |-> IF signed /\ Head(text) = "-"
                       THEN 0 - DigitsValue(body, 0)
                       ELSE DigitsValue(body, 0)]

KeyError(kind) == [called |-> TRUE, ok |-> FALSE, raised |-> kind]

(***************************************************************************)
(* parse_signal_key: `symbol, window = key.split('_w')` raises ValueError   *)
(* unless there are exactly two pieces; int(window) raises ValueError on a  *)
(* piece that is no integer.                                                *)
(***************************************************************************)
parse_signal_key(k) ==
    LET parts == SplitOnSeparator(k)
    IN IF Len(parts) # 2 THEN KeyError("ValueError")
       ELSE LET n == PyInt(parts[2])
            IN IF ~n.ok THEN KeyError("ValueError")
               ELSE [called |-> TRUE, ok |-> TRUE, symbol |-> parts[1],
                     window |-> n.value]

(***************************************************************************)
(* A feed entry: its key and the fields of its JSON object that the        *)
(* processor reads.  A field is a number, is missing, or is text that does *)
(* not convert.  Confidence and risk/reward are in tenths, the recommended *)
(* size is the number before the `%`, prices and the account are whole.    *)
(***************************************************************************)
Num(v) == [t |-> "num", v |-> v]
Str(s) == [t |-> "str", v |-> s]
Missing == [t |-> "missing", v |-> 0]
Bad == [t |-> "bad", v |-> 0]

\* The quotient a / b (b # 0) truncated toward zero, as int(Decimal) does.
TruncDiv(a, b) ==
    LET abs(x) == IF x < 0 THEN 0 - x ELSE x
        q == abs(a) \div abs(b)
    IN IF (a < 0) = (b < 0) THEN q ELSE 0 - q

\* A mutant of FailsFilters: the risk/reward test is missing.
FailsFiltersNoRiskReward(symbol, e, targets, minConf, minRR) ==
    IF targets.given /\ targets.symbols # {} /\ symbol \notin targets.symbols
    THEN [raised |-> "none", skip |-> TRUE]
    ELSE IF e.confidence.t # "num" THEN [raised |-> "KeyError", skip |-> FALSE]
    ELSE [raised |-> "none", skip |-> e.confidence.v < minConf]

(***************************************************************************)
(* The filter of process_trading_signals, an `or` of three tests evaluated *)
(* left to right: `target_symbols and symbol not in target_symbols`, then  *)
(* the confidence test, then the risk/reward test.  Reading a missing      *)
(* field raises KeyError.                                                  *)
(***************************************************************************)
FailsFilters(symbol, e, targets, minConf, minRR) ==
    IF targets.given /\ targets.symbols # {} /\ symbol \notin targets.symbols
    THEN [raised |-> "none", skip |-> TRUE]
    ELSE IF e.confidence.t # "num" THEN [raised |-> "KeyError", skip |-> FALSE]
    ELSE IF e.confidence.v < minConf THEN [raised |-> "none", skip |-> TRUE]
    ELSE IF e.risk_reward_ratio.t # "num"
         THEN [raised |-> "KeyError", skip |-> FALSE]
    ELSE [raised |-> "none", skip |-> e.risk_reward_ratio.v < minRR]

\* What building the TradingSignal raises, its arguments evaluated in order:
\* a missing field on reading it, Decimal(str(price)) on text that is no
\* number, float(...) on a size that is no number.  The signal type is stored
\* as read.
ConstructionError(e) ==
    IF e.signal_type.t = "missing" THEN "KeyError"
    ELSE IF e.stop_price.t = "missing" THEN "KeyError"
    ELSE IF e.stop_price.t = "bad" THEN "InvalidOperation"
    ELSE IF e.limit_price.t = "missing" THEN "KeyError"
    ELSE IF e.limit_price.t = "bad" THEN "InvalidOperation"
    ELSE IF e.recommended_size.t = "missing" THEN "KeyError"
    ELSE IF e.recommended_size.t = "bad" THEN "ValueError"
    ELSE "none"

\* int(account_value * Decimal(str(position_size)) / entry_price), where
\* position_size is the recommended size divided by 100.
PositionSize(account, sizePercent, entryPrice) ==
    TruncDiv(account * sizePercent, 100 * entryPrice)

\* signals[symbol].append(item), with `signals[symbol] = []` first for a
\* symbol not yet in the dict; the dict keeps its insertion order.
AppendSignal(signals, symbol, item) ==
    IF \E i \in 1..Len(signals) : signals[i].symbol = symbol
    THEN [i \in 1..Len(signals) |->
            IF signals[i].symbol = symbol
            THEN [signals[i] EXCEPT !.items = Append(@, item)]
            ELSE signals[i]]
    ELSE Append(signals, [symbol |-> symbol, items |-> <<item>>])

Raised(kind) == [called |-> TRUE, raised |-> kind, signals |-> <<>>]

(***************************************************************************)
(* The loop of process_trading_signals from entry i on, with the dict      *)
(* built so far: the first exception ends the call (it is logged and       *)
(* raised again, or propagates), otherwise the dict is returned.           *)
(***************************************************************************)
RECURSIVE ProcessFrom(_, _, _, _, _, _)
ProcessFrom(i, signals, data, account, targets, thresholds) ==
    IF i > Len(data)
    THEN [called |-> TRUE, raised |-> "none", signals |-> signals]
    ELSE
      LET e == data[i]
          parsed == parse_signal_key(e.key)
      IN IF ~parsed.ok THEN Raised(parsed.raised)
         ELSE
           LET f == FailsFilters(parsed.symbol, e, targets,
                                 thresholds[1], thresholds[2])
           IN IF f.raised # "none" THEN Raised(f.raised)
              ELSE IF f.skip
              THEN ProcessFrom(i + 1, signals, data, account, targets,
                               thresholds)
              ELSE IF ConstructionError(e) # "none"
              THEN Raised(ConstructionError(e))
              ELSE IF e.stop_price.v = 0
              THEN Raised(IF account * e.recommended_size.v = 0
                          THEN "InvalidOperation" ELSE "DivisionByZero")
              ELSE
                LET signal == [symbol |-> parsed.symbol,
                               signal_type |-> e.signal_type.v,
                               entry_limit_price |-> e.limit_price.v,
                               window_weeks |-> parsed.window,
                               confidence |-> e.confidence.v,
                               risk_reward_ratio |-> e.risk_reward_ratio.v,
                               entry_price |-> e.stop_price.v,
                               position_size |-> e.recommended_size.v]
                    item == [signal |-> signal,
                             quantity |-> PositionSize(account,
                                             e.recommended_size.v,
                                             e.stop_price.v)]
                IN ProcessFrom(i + 1,
                               AppendSignal(signals, parsed.symbol, item),
                               data, account, targets, thresholds)

process_trading_signals(data, account, targets, minConf, minRR) ==
    ProcessFrom(1, <<>>, data, account, targets, <<minConf, minRR>>)

(***************************************************************************)
(* The inputs of process_trading_signals that are explored.                *)
(***************************************************************************)
MaxFeedLen == 2

\* The defaults of min_confidence (0.5) and min_risk_reward (1.5), in tenths.
DefaultMinConfidence == 5
DefaultMinRiskReward == 15

FeedKeys == { <<"A", "_", "w", "1">>, <<"A", "_", "w", "2">>,
              <<"B", "_", "w", "1">>, <<"A">> }

BaseEntry == [key |-> <<"A", "_", "w", "1">>,
              signal_type |-> Str(<<"b", "u", "y">>),
              confidence |-> Num(8), risk_reward_ratio |-> Num(20),
              stop_price |-> Num(100), limit_price |-> Num(101),
              recommended_size |-> Num(10)]

EntryBodies ==
    {[BaseEntry EXCEPT !.confidence = c, !.risk_reward_ratio = r] :
        c \in {Missing, Num(3), Num(8)}, r \in {Num(10), Num(20)}}
    \cup {[BaseEntry EXCEPT !.stop_price = p] :
        p \in {Bad, Num(0), Num(0 - 100), Num(100)}}
    \cup {[BaseEntry EXCEPT !.recommended_size = q] :
        q \in {Num(0 - 15), Num(10), Num(150)}}

Entries == {[b EXCEPT !.key = k] : b \in EntryBodies, k \in FeedKeys}

\* A JSON object holds each key once.
Feeds ==
    {f \in UNION {[1..n -> Entries] : n \in 0..MaxFeedLen} :
        \A i, j \in DOMAIN f : i # j => f[i].key # f[j].key}

Thresholds == { <<DefaultMinConfidence, DefaultMinRiskReward>>,
                <<DefaultMinConfidence + 4, DefaultMinRiskReward - 10>> }

AllowLists == {[given |-> FALSE, symbols |-> {}],
               [given |-> TRUE, symbols |-> {}],
               [given |-> TRUE, symbols |-> {<<"A">>}]}

AccountValues == {1000, 10000}

SignalInit ==
    /\ feed \in Feeds
    /\ account_value \in AccountValues
    /\ target_symbols \in AllowLists
    /\ \E th \in Thresholds :
          min_confidence = th[1] /\ min_risk_reward = th[2]
    /\ sigResult = NotCalled
    /\ MonitorInit
    /\ KeyIdle
    /\ RunIdle
    /\ PlaceIdle

ProcessTradingSignals ==
    /\ ~sigResult.called
    /\ sigResult' = process_trading_signals(feed, account_value,
                        target_symbols, min_confidence, min_risk_reward)
    /\ UNCHANGED <<feed, account_value, target_symbols, min_confidence,
                   min_risk_reward>>
    /\ UNCHANGED <<monVars, keyVars, runVars, placeVars>>

SignalNext == ProcessTradingSignals

SignalSpec == SignalInit /\ [][SignalNext]_vars

(***************************************************************************)
(* The keys parse_signal_key is applied to.                                *)
(***************************************************************************)
MaxKeyLen == 4

KeyAlphabet == {"A", "_", "w", "0", "1", "-"}

KeyInit ==
    /\ key \in UNION {[1..n -> KeyAlphabet] : n \in 0..MaxKeyLen}
    /\ keyResult = NotCalled
    /\ MonitorInit
    /\ SignalsIdle
    /\ RunIdle
    /\ PlaceIdle

ParseSignalKey ==
    /\ ~keyResult.called
    /\ keyResult' = parse_signal_key(key)
    /\ UNCHANGED key
    /\ UNCHANGED <<monVars, sigVars, runVars, placeVars>>

KeyNext == ParseSignalKey

KeySpec == KeyInit /\ [][KeyNext]_vars

(***************************************************************************)
(* alpaca_service.py: TradingService.place_stop_limit_order.               *)
(***************************************************************************)
UpperCase == <<"A", "B", "C", "D", "E", "F", "G", "H", "I", "J", "K", "L", "M",
               "N", "O", "P", "Q", "R", "S", "T", "U", "V", "W", "X", "Y", "Z">>

LowerCase == <<"a", "b", "c", "d", "e", "f", "g", "h", "i", "j", "k", "l", "m",
               "n", "o", "p", "q", "r", "s", "t", "u", "v", "w", "x", "y", "z">>

\* str.lower() on the ASCII strings modelled.
Lower(s) ==
    [i \in DOMAIN s |->
        IF \E j \in DOMAIN UpperCase : UpperCase[j] = s[i]
        THEN LowerCase[CHOOSE j \in DOMAIN UpperCase : UpperCase[j] = s[i]]
        ELSE s[i]]

\* float(round(price, 2)) of a Decimal price given in thousandths: the price
\* in hundredths, a tie going to the even digit.
RoundToCents(thousandths) ==
    LET q == thousandths \div 10
        r == thousandths % 10
    IN IF r > 5 \/ (r = 5 /\ q % 2 = 1) THEN q + 1 ELSE q

\* What happens to the request: StopLimitOrderRequest refuses the values with
\* a validation error (a ValueError), or the request is submitted and the
\* venue accepts it or submit_order raises.
VenueOutcomes == {"accepted", "rejected", "invalid"}

(***************************************************************************)
(* place_stop_limit_order: any side but `buy` becomes a sell, any          *)
(* time-in-force but `gtc` becomes a day order; a ValueError is raised     *)
(* again as ValueError, any other exception as RuntimeError.               *)
(***************************************************************************)
place_stop_limit_order(symbol, qty, limit_price, stop_price, side, time_in_force, outcome) ==
    LET order_side == IF Lower(side) = <<"b", "u", "y">>
                      THEN "BUY" ELSE "SELL"
        order_tif == IF Lower(time_in_force) = <<"g", "t", "c">>
                     THEN "GTC" ELSE "DAY"
        req == [symbol |-> symbol, qty |-> qty, side |-> order_side,
                time_in_force |-> order_tif,
                limit_price |-> RoundToCents(limit_price),
                stop_price |-> RoundToCents(stop_price)]
    IN IF outcome = "invalid"
       THEN [called |-> TRUE, raised |-> "ValueError", submitted |-> <<>>]
       ELSE IF outcome = "rejected"
       THEN [called |-> TRUE, raised |-> "RuntimeError",
             submitted |-> <<req>>]
       ELSE [called |-> TRUE, raised |-> "none", submitted |-> <<req>>]

\* The arguments of the direct calls that are explored; prices in thousandths.
PlaceSides == { <<"b", "u", "y">>, <<"s", "e", "l", "l">>, <<"B", "U", "Y">>,
                <<"h", "o", "l", "d">> }

PlaceTimesInForce == { <<"g", "t", "c">>, <<"d", "a", "y">>, <<"G", "T", "C">>,
                       <<"f", "o", "r", "e", "v", "e", "r">> }

PlaceQuantities == {0, 1}

PlacePrices == {100005, 100015}

PlaceInit ==
    MonitorInit /\ SignalsIdle /\ KeyIdle /\ RunIdle /\ PlaceIdle

PlaceStopLimitOrder ==
    /\ \E qty \in PlaceQuantities, limit_price, stop_price \in PlacePrices,
          side \in PlaceSides, time_in_force \in PlaceTimesInForce,
          outcome \in VenueOutcomes :
          /\ placeCall' = [called |-> TRUE, symbol |-> <<"A">>, qty |-> qty,
                           limit_price |-> limit_price,
                           stop_price |-> stop_price, side |-> side,
                           time_in_force |-> time_in_force]
          /\ placeResult' = place_stop_limit_order(<<"A">>, qty, limit_price,
                               stop_price, side, time_in_force, outcome)
    /\ UNCHANGED <<monVars, sigVars, keyVars, runVars>>

PlaceNext == PlaceStopLimitOrder

PlaceSpec == PlaceInit /\ [][PlaceNext]_vars

(***************************************************************************)
(* main.py: the run command.  It blocks in input() once per signal; a step *)
(* of the model runs from one input() to the next or to the command's end. *)
(***************************************************************************)

\* The (signal, shares) pairs in the order the two nested loops visit them.
RECURSIVE Flatten(_)
Flatten(signals) ==
    IF signals = <<>> THEN <<>>
    ELSE Head(signals).items \o Flatten(Tail(signals))

\* confirm_trade up to its input(): `trade_value/account_value` raises on an
\* account value of zero.
ConfirmTradeDetails(item, account) ==
    IF account # 0 THEN "none"
    ELSE IF item.signal.entry_price * item.quantity = 0
    THEN "InvalidOperation"
    ELSE "DivisionByZero"

\* input(...).lower() == 'y'
ConfirmAnswer(answer) == Lower(answer) = <<"y">>

\* qty=1 in the call of place_stop_limit_order.
OrderQty == 1

\* A mutant of VisitOutcome: a failed placement is not counted.
VisitOutcomeFailureUncounted(item, answer, outcome) ==
    LET signal == item.signal
        base == [symbol |-> signal.symbol, quantity |-> item.quantity,
                 confirmed |-> ConfirmAnswer(answer), raised |-> "none",
                 submitted |-> <<>>, counted |-> "none"]
        side == Lower(signal.signal_type)
        order == place_stop_limit_order(signal.symbol, OrderQty,
                    1000 * signal.entry_limit_price,
                    1000 * signal.entry_price, side, <<"g", "t", "c">>,
                    outcome)
    IN IF ~ConfirmAnswer(answer) THEN base
       ELSE IF side \notin { <<"b", "u", "y">>, <<"s", "e", "l", "l">> }
       THEN [base EXCEPT !.counted = "failed"]
       ELSE [base EXCEPT !.raised = order.raised,
                         !.submitted = order.submitted,
                         !.counted = IF order.raised = "none"
                                     THEN "placed" ELSE "none"]

(***************************************************************************)
(* The body of the inner loop once input() has returned: a declined trade  *)
(* is skipped; a type that is no buy or sell is counted as failed; else    *)
(* the order is placed for OrderQty shares, counted as placed, or as       *)
(* failed when the call raises.                                            *)
(***************************************************************************)
VisitOutcome(item, answer, outcome) ==
    LET signal == item.signal
        base == [symbol |-> signal.symbol, quantity |-> item.quantity,
                 confirmed |-> ConfirmAnswer(answer), raised |-> "none",
                 submitted |-> <<>>, counted |-> "none"]
        side == Lower(signal.signal_type)
        order == place_stop_limit_order(signal.symbol, OrderQty,
                    1000 * signal.entry_limit_price,
                    1000 * signal.entry_price, side, <<"g", "t", "c">>,
                    outcome)
    IN IF ~ConfirmAnswer(answer) THEN base
       ELSE IF side \notin { <<"b", "u", "y">>, <<"s", "e", "l", "l">> }
       THEN [base EXCEPT !.counted = "failed"]
       ELSE [base EXCEPT !.raised = order.raised,
                         !.submitted = order.submitted,
                         !.counted = IF order.raised = "none"
                                     THEN "placed" ELSE "failed"]

\* The inputs of run that are explored.
SignalTypes == { <<"b", "u", "y">>, <<"S", "E", "L", "L">>,
                 <<"h", "o", "l", "d">> }

RunKeys == { <<"A", "_", "w", "1">>, <<"A", "_", "w", "2">>,
             <<"B", "_", "w", "1">> }

RunEntryBodies ==
    {[BaseEntry EXCEPT !.signal_type = Str(t), !.confidence = c] :
        t \in SignalTypes, c \in {Num(3), Num(8)}}
    \cup {[BaseEntry EXCEPT !.stop_price = Bad]}

RunEntries == {[b EXCEPT !.key = k] : b \in RunEntryBodies, k \in RunKeys}

RunFeeds ==
    {f \in UNION {[1..n -> RunEntries] : n \in 0..MaxFeedLen} :
        \A i, j \in DOMAIN f : i # j => f[i].key # f[j].key}

\* The portfolio value the venue reports.
RunAccountValues == {0, 50, 1000}

Answers == { <<"y">>, <<"Y">>, <<"n">> }

RunInit ==
    /\ feed \in RunFeeds
    /\ account_value \in RunAccountValues
    /\ target_symbols = [given |-> FALSE, symbols |-> {}]
    /\ min_confidence = DefaultMinConfidence
    /\ min_risk_reward = DefaultMinRiskReward
    /\ sigResult = NotCalled
    /\ runPc = "start"
    /\ runRaised = "none"
    /\ orders_placed = 0
    /\ orders_failed = 0
    /\ visits = <<>>
    /\ MonitorInit
    /\ KeyIdle
    /\ PlaceIdle

\* Where run is once the signal at position i is the next to confirm: at
\* its input(), or aborted by what confirm_trade raised before asking.
AtSignal(items, i) ==
    LET raised == ConfirmTradeDetails(items[i], account_value)
    IN /\ runPc' = IF raised = "none" THEN "confirm" ELSE "aborted"
       /\ runRaised' = raised

(***************************************************************************)
(* run from its start to the first input(): the account query, the search  *)
(* for the signals file, process_trading_signals, the test for an empty    *)
(* result.  Whatever is raised is logged and raised again.                 *)
(***************************************************************************)
RunStart ==
    /\ runPc = "start"
    /\ \E accountQuery \in {"ok", "error"}, fileFound \in BOOLEAN :
          LET result == process_trading_signals(feed, account_value,
                           target_symbols, min_confidence, min_risk_reward)
          IN IF accountQuery = "error"
             THEN /\ runPc' = "aborted"
                  /\ runRaised' = "APIError"
                  /\ UNCHANGED sigResult
             ELSE IF ~fileFound
             THEN /\ runPc' = "returned"
                  /\ UNCHANGED <<runRaised, sigResult>>
             ELSE /\ sigResult' = result
                  /\ IF result.raised # "none"
                     THEN runPc' = "aborted" /\ runRaised' = result.raised
                     ELSE IF result.signals = <<>>
                     THEN runPc' = "returned" /\ UNCHANGED runRaised
                     ELSE AtSignal(Flatten(result.signals), 1)
    /\ UNCHANGED <<orders_placed, orders_failed, visits>>
    /\ UNCHANGED <<feed, account_value, target_symbols, min_confidence,
                   min_risk_reward>>
    /\ UNCHANGED <<monVars, keyVars, placeVars>>

(***************************************************************************)
(* run from the return of input() for one signal to the next input(), or   *)
(* past the loops to the final log line.                                   *)
(***************************************************************************)
RunAnswer ==
    /\ runPc = "confirm"
    /\ \E answer \in Answers, outcome \in VenueOutcomes :
          LET items == Flatten(sigResult.signals)
              i == Len(visits) + 1
              visit == VisitOutcome(items[i], answer, outcome)
          IN /\ visits' = Append(visits, visit)
             /\ orders_placed' = orders_placed + Count(visit.counted = "placed")
             /\ orders_failed' = orders_failed + Count(visit.counted = "failed")
             /\ IF i = Len(items)
                THEN runPc' = "done" /\ UNCHANGED runRaised
                ELSE AtSignal(items, i + 1)
    /\ UNCHANGED <<sigVars, monVars, keyVars, placeVars>>

RunNext ==
    \/ RunStart
    \/ RunAnswer

RunSpec == RunInit /\ [][RunNext]_vars

(***************************************************************************)
(* Properties of the order monitor, checked under Spec.                    *)
(***************************************************************************)

\* What one poll cycle writes.
CycleRecord == <<cycleResult, byId, classified, active_orders, filledEvents,
                 cancelledEvents>>

\* This step is a poll cycle (_check_orders ran): the task's first run, or a
\* resumption of the running loop that wrote something.
PollCycleStep ==
    \/ pc = "created" /\ pc' = "sleep"
    \/ pc = "sleep" /\ running /\ pc' = "sleep" /\ CycleRecord' # CycleRecord

ClassifiedStatus == {"filled", "canceled", "expired"}

\* C1 as stated: an order tracked after cycle N and absent from the open set
\* fetched in a successful cycle N+1 gets exactly one terminal classification
\* in cycle N+1, whatever the order-by-id query returns.
C1_ExactlyOneClassification ==
    [][(PollCycleStep /\ cycleResult' = "ok")
          => \A o \in active_orders \ active_orders' :
                Cardinality(classified'[o]) = 1]_vars

\* C1 amended: such an order gets at most one terminal classification, never
\* both: the filled handler when the order-by-id query returns FILLED, the
\* cancelled/expired handler when it returns CANCELED or EXPIRED, and none
\* when it returns another status or fails.
C1_AtMostOneClassification ==
    [][(PollCycleStep /\ cycleResult' = "ok")
          => \A o \in active_orders \ active_orders' :
                /\ Cardinality(classified'[o]) <= 1
                /\ ("filled" \in classified'[o]) <=> (byId'[o] = "filled")
                /\ ("cancelled" \in classified'[o])
                      <=> (byId'[o] \in {"canceled", "expired"})
                /\ (classified'[o] = {})
                      <=> (byId'[o] \notin ClassifiedStatus)]_vars

\* C1 witness: one cycle classified a cancelled order, and left alone an
\* order whose status was not a tested one and an order whose query failed.
C1_Witness ==
    /\ cycleResult = "ok"
    /\ \E o \in Orders : byId[o] = "canceled" /\ classified[o] = {"cancelled"}
    /\ \E o \in Orders :
          byId[o] \in {"rejected", "new", QueryError} /\ classified[o] = {}

\* C2: an order whose order-by-id query returned FILLED has exactly one
\* filled-order event, in that cycle and in every later state, and is not
\* tracked from then on; no order ever has two filled-order events.
C2_FilledExactlyOnce ==
    \A o \in Orders :
       /\ filledEvents[o] <= 1
       /\ (cycleResult = "ok" /\ byId[o] = "filled") => filledEvents[o] = 1
       /\ filledEvents[o] = 1 => o \notin active_orders

\* C2 witness: a filled-order event was emitted for an order in an earlier
\* cycle, and a later successful cycle has run without querying it again.
C2_Witness ==
    \E o \in Orders :
       /\ filledEvents[o] = 1
       /\ cycleResult = "ok"
       /\ byId[o] = NotQueried
       /\ venueStatus[o] = "filled"

\* C3: an order that left the open set with a status other than FILLED,
\* CANCELED or EXPIRED is checked again by id in the next successful cycle
\* whose open set omits it, so that a final status reached meanwhile is seen.
C3_RecheckedNextCycle ==
    [][\A o \in Orders :
          (/\ cycleResult = "ok"
           /\ byId[o] \in OrderStatus \ ClassifiedStatus
           /\ venueStatus[o] \in ClassifiedStatus
           /\ PollCycleStep
           /\ cycleResult' = "ok"
           /\ o \notin active_orders')
          => byId'[o] # NotQueried]_vars

\* C4: a poll cycle whose open-orders query fails leaves active_orders as
\* it was, emits no event, and leaves the loop running and asleep, so that
\* its next resumption polls again.
C4_FailedCycleIsNoOp ==
    [][(PollCycleStep /\ cycleResult' = "failed")
          => /\ active_orders' = active_orders
             /\ filledEvents' = filledEvents
             /\ cancelledEvents' = cancelledEvents
             /\ \A o \in Orders : classified'[o] = {}
             /\ pc' = "sleep"
             /\ running']_vars

\* C4 witness: the last cycle failed while orders were tracked, and the loop
\* is asleep and running.
C4_Witness ==
    /\ cycleResult = "failed"
    /\ active_orders # {}
    /\ pc = "sleep"
    /\ running

\* C5: once stop_monitoring has been called no poll cycle starts (also when
\* it is called before the task's first statement), and the loop ends only
\* after a stop request.
C5_StopHonored ==
    [][/\ stopRequested => ~PollCycleStep
       /\ pc' = "done" => stopRequested']_vars

\* C6: a snapshot query changes neither active_orders nor the running flag,
\* nor anything else a poll cycle reads or writes.
C6_SnapshotIsReadOnly ==
    [][snapshot' # snapshot
          => UNCHANGED <<active_orders, running, pc, cycleResult, byId,
                         classified, filledEvents, cancelledEvents>>]_vars

\* C6 witness: between two cycles of the running loop a snapshot returned an
\* open set other than the tracked one.
C6_Witness ==
    /\ snapshot.kind = "positions_and_orders"
    /\ snapshot.ok
    /\ cycleResult = "ok"
    /\ pc = "sleep"
    /\ running
    /\ active_orders # {}
    /\ snapshot.orders # active_orders

\* C15: a failed order-by-id query is isolated to its order: in that cycle
\* no handler runs and no event is emitted for it and it leaves the tracked
\* set; every other order that left the open set is still queried and
\* classified by the status returned; and active_orders becomes the open
\* set just fetched.
C15_QueryFailureIsolated ==
    [][\A o \in Orders :
          (PollCycleStep /\ byId'[o] = QueryError)
             => /\ cycleResult' = "ok"
                /\ o \in active_orders
                /\ o \notin active_orders'
                /\ classified'[o] = {}
                /\ filledEvents'[o] = filledEvents[o]
                /\ cancelledEvents'[o] = cancelledEvents[o]
                /\ active_orders' \subseteq OpenOnVenue
                /\ \A p \in (active_orders \ active_orders') \ {o} :
                      /\ byId'[p] # NotQueried
                      /\ byId'[p] = "filled"
                            => filledEvents'[p] = filledEvents[p] + 1
                      /\ byId'[p] \in {"canceled", "expired"}
                            => cancelledEvents'[p] = cancelledEvents[p] + 1]_vars

\* C15 witness: in one cycle the query failed for one order, another order
\* that left the open set was classified, and the tracked set was replaced.
C15_Witness ==
    /\ cycleResult = "ok"
    /\ \E o, p \in Orders :
          /\ byId[o] = QueryError
          /\ classified[o] = {}
          /\ o \notin active_orders
          /\ byId[p] = "filled"
          /\ classified[p] = {"filled"}
          /\ filledEvents[p] = 1

\* C16: an event is emitted for an order only by a successful poll cycle
\* that began with the order tracked and fetched an open set without it;
\* none for an order still reported open or never seen open.
C16_EventsOnlyForDisappearedOrders ==
    [][\A o \in Orders :
          (filledEvents'[o] # filledEvents[o]
             \/ cancelledEvents'[o] # cancelledEvents[o])
          => /\ PollCycleStep
             /\ cycleResult' = "ok"
             /\ o \in active_orders
             /\ o \notin active_orders']_vars

\* C16 witness: a cycle emitted an event for an order that left the open
\* set, while an order filled before the monitor ever saw it open has none.
C16_Witness ==
    /\ cycleResult = "ok"
    /\ \E o, p \in Orders :
          /\ classified[p] # {}
          /\ filledEvents[p] + cancelledEvents[p] = 1
          /\ venueStatus[o] = "filled"
          /\ byId[o] = NotQueried
          /\ filledEvents[o] = 0
          /\ cancelledEvents[o] = 0

(***************************************************************************)
(* Properties of process_trading_signals, checked under SignalSpec.        *)
(***************************************************************************)

Returned == sigResult.called /\ sigResult.raised = "none"

\* The sized signals of the returned dict.
OutputItems ==
    UNION {{sigResult.signals[k].items[n] :
               n \in 1..Len(sigResult.signals[k].items)} :
           k \in 1..Len(sigResult.signals)}

\* The entry's key has the form <SYMBOL>_w<N>.
KeyParses(e) == parse_signal_key(e.key).ok

\* The returned dict holds a sized signal made from this entry.
InOutput(e) ==
    /\ Returned
    /\ KeyParses(e)
    /\ \E item \in OutputItems :
          /\ item.signal.symbol = parse_signal_key(e.key).symbol
          /\ item.signal.window_weeks = parse_signal_key(e.key).window

\* A malformed entry: bad key format, missing field or unconvertible price.
Malformed(e) ==
    \/ ~KeyParses(e)
    \/ "missing" \in {e.confidence.t, e.risk_reward_ratio.t, e.stop_price.t,
                      e.recommended_size.t}
    \/ e.stop_price.t = "bad"

\* A well-formed entry that can be sized.
Sizable(e) ==
    /\ KeyParses(e)
    /\ {e.confidence.t, e.risk_reward_ratio.t, e.stop_price.t,
        e.recommended_size.t} = {"num"}
    /\ e.stop_price.v # 0

\* The entry passes the three filters.
PassesFilters(e) ==
    /\ target_symbols.given
          => parse_signal_key(e.key).symbol \in target_symbols.symbols
    /\ e.confidence.v >= min_confidence
    /\ e.risk_reward_ratio.v >= min_risk_reward

\* The entry is below one of the two thresholds.
BelowThreshold(e) ==
    \/ e.confidence.t = "num" /\ e.confidence.v < min_confidence
    \/ e.risk_reward_ratio.t = "num"
          /\ e.risk_reward_ratio.v < min_risk_reward

\* C7: a malformed feed entry is localized: every well-formed entry that
\* passes the filters, before or after the malformed one, is in the output.
C7_MalformedEntryLocalized ==
    sigResult.called =>
       \A i, j \in DOMAIN feed :
          (Malformed(feed[j]) /\ Sizable(feed[i]) /\ PassesFilters(feed[i]))
             => InOutput(feed[i])

\* C8: in what process_trading_signals returns, no entry below one of the
\* thresholds has a sized signal, no symbol has an empty list, and a feed
\* whose entries are all below a threshold gives the empty mapping.
C8_FilteredEntriesAbsent ==
    Returned =>
       /\ \A i \in DOMAIN feed :
             (KeyParses(feed[i]) /\ BelowThreshold(feed[i]))
                => ~InOutput(feed[i])
       /\ \A item \in OutputItems :
             /\ item.signal.confidence >= min_confidence
             /\ item.signal.risk_reward_ratio >= min_risk_reward
       /\ \A k \in 1..Len(sigResult.signals) :
             sigResult.signals[k].items # <<>>
       /\ (\A i \in DOMAIN feed : BelowThreshold(feed[i]))
             => sigResult.signals = <<>>

\* C8 witness: the call returned for a feed of two entries, one with
\* risk/reward 1.0 against the default 1.5, the other in the output.
C8_Witness ==
    /\ Returned
    /\ min_risk_reward = DefaultMinRiskReward
    /\ \E i, j \in DOMAIN feed :
          /\ feed[i].risk_reward_ratio = Num(10)
          /\ feed[i].confidence = Num(8)
          /\ ~InOutput(feed[i])
          /\ InOutput(feed[j])

\* floor(a / b) for b # 0.
FloorDiv(a, b) == IF b > 0 THEN a \div b ELSE (0 - a) \div (0 - b)

\* C9: every quantity in the output is
\* floor(account_value * position_size / entry_price) and is not negative.
C9_QuantityIsFloorAndNonNegative ==
    Returned =>
       \A item \in OutputItems :
          /\ item.quantity = FloorDiv(account_value * item.signal.position_size,
                                      100 * item.signal.entry_price)
          /\ item.quantity >= 0

(***************************************************************************)
(* Properties of parse_signal_key, checked under KeySpec.                  *)
(***************************************************************************)

\* The key is <SYMBOL>_w<N>: one `_w`, followed by the digits of a positive
\* integer.
IsSymbolWindowKey(k) ==
    \E i \in 1..(Len(k) - 1) :
       /\ k[i] = "_" /\ k[i + 1] = "w"
       /\ \A j \in 1..(Len(k) - 1) : (k[j] = "_" /\ k[j + 1] = "w") => j = i
       /\ i + 2 <= Len(k)
       /\ \A j \in (i + 2)..Len(k) : k[j] \in Digits
       /\ DigitsValue(SubSeq(k, i + 2, Len(k)), 0) > 0

\* C10: parse_signal_key yields (SYMBOL, N) for a key <SYMBOL>_w<N> with N a
\* positive integer, and fails for every other key.
C10_KeyFormat ==
    keyResult.called =>
       IF IsSymbolWindowKey(key)
       THEN /\ keyResult.ok
            /\ LET i == FindSeparator(key, 1)
               IN /\ keyResult.symbol = SubSeq(key, 1, i - 1)
                  /\ keyResult.window =
                        DigitsValue(SubSeq(key, i + 2, Len(key)), 0)
       ELSE ~keyResult.ok

\* C11: whenever an allow-list is given to process_trading_signals, an empty
\* list included, every symbol of the returned mapping is in the allow-list.
C11_OutputWithinAllowList ==
    (Returned /\ target_symbols.given) =>
       \A k \in 1..Len(sigResult.signals) :
          sigResult.signals[k].symbol \in target_symbols.symbols
(***************************************************************************)
(* Properties of the run command, checked under RunSpec, and of            *)
(* place_stop_limit_order, checked under PlaceSpec.                        *)
(***************************************************************************)

\* C12: run makes no order-submission call for a signal whose quantity is 0.
C12_ZeroQuantityNotSubmitted ==
    \A i \in 1..Len(visits) :
       visits[i].quantity = 0 => visits[i].submitted = <<>>

\* The positions of the answered confirmations with the given count.
Counted(how) == {i \in 1..Len(visits) : visits[i].counted = how}

\* C13: in the batch loop a placement that fails is counted as failed and
\* the loop goes on: every confirmed signal is counted once, as placed or as
\* failed, every declined one is not counted, the loop leaves only after the
\* last signal, and run ends with every signal of the sizer's output visited
\* and orders_placed + orders_failed equal to the number confirmed.
C13_FailureCountedAndBatchContinues ==
    (runPc \in {"confirm", "done"}) =>
       /\ \A i \in 1..Len(visits) :
             /\ visits[i].confirmed => visits[i].counted \in {"placed", "failed"}
             /\ ~visits[i].confirmed => visits[i].counted = "none"
             /\ visits[i].raised # "none" => visits[i].counted = "failed"
       /\ orders_placed = Cardinality(Counted("placed"))
       /\ orders_failed = Cardinality(Counted("failed"))
       /\ orders_placed + orders_failed =
             Cardinality({i \in 1..Len(visits) : visits[i].confirmed})
       /\ runPc = "confirm" => Len(visits) < Len(Flatten(sigResult.signals))
       /\ runPc = "done" => Len(visits) = Len(Flatten(sigResult.signals))

\* C13 witness: run ended after two confirmed signals, the first of which
\* failed at the venue and the second of which was placed.
C13_Witness ==
    /\ runPc = "done"
    /\ Len(visits) = 2
    /\ visits[1].confirmed /\ visits[1].raised = "RuntimeError"
    /\ visits[2].confirmed /\ visits[2].counted = "placed"
    /\ orders_placed = 1
    /\ orders_failed = 1

\* The time-in-force values of the venue.
SupportedTimesInForce ==
    { <<"d", "a", "y">>, <<"g", "t", "c">>, <<"o", "p", "g">>,
      <<"c", "l", "s">>, <<"i", "o", "c">>, <<"f", "o", "k">> }

\* C14: place_stop_limit_order called with a side that is no buy or sell, or
\* with an unsupported time-in-force, raises the invalid-parameters error
\* and submits nothing.
C14_InvalidSideOrTifRejected ==
    (/\ placeCall.called
     /\ \/ Lower(placeCall.side) \notin { <<"b", "u", "y">>,
                                           <<"s", "e", "l", "l">> }
        \/ Lower(placeCall.time_in_force) \notin SupportedTimesInForce)
    => /\ placeResult.raised = "ValueError"
       /\ placeResult.submitted = <<>>

====
